---- MODULE Spec2Model ----
(***************************************************************************)
(* Change-aggregation and scheduled-synchronisation pipeline of Citadel    *)
(* (Syncforge): Tracker (classifier + ledger), Scheduler (timer, busy /    *)
(* pending flags, flush) and GitService (promise-chain operation queue).   *)
(*                                                                         *)
(* File paths, glob patterns and extensions are tuples of one-character    *)
(* strings, so that substring search, extension extraction, lower-casing   *)
(* and glob matching are computed the way the code computes them.          *)
(***************************************************************************)
EXTENDS Integers, Sequences, FiniteSets, TLC

VARIABLES
    isInitialized,      \* Tracker.isInitialized
    excludePatterns,    \* Tracker.excludePatterns
    changes,            \* Tracker.changes: Map in insertion order, a sequence of Change
    clock,              \* the wall clock read by `new Date()` in handleChange
    lastEvent,          \* locals of the latest Tracker.handleChange call
    timer,              \* Scheduler.timer: handle of the interval, 0 for null
    armed,              \* node:timers: armed intervals, handle -> delay in ms
    commitFrequency,    \* Scheduler.commitFrequency (minutes)
    isCommiting,        \* Scheduler.isCommiting
    pendingChanges,     \* Scheduler.pendingChanges
    flushes,            \* activations of Scheduler.commitChanges suspended at an await
    timeouts,           \* node:timers: pending setTimeout(() => commitChanges(), 5000)
    operationQueue,     \* GitService.operationQueue: unsettled promises of the chain
    chainState,         \* state of the settled promise the first unsettled one chains on
    setupRunning,       \* direct GitService.ensureRepoSetup calls in progress
    failedPaths,        \* paths of jobs whose commitAndPush rejected, not yet in a job that succeeded
    activeProcesses,    \* GitService.activeProcesses
    callers,            \* activations of GitService.withRetry: position, attempt, delays slept
    waiters,            \* callers sleeping in withProcessLimit's loop, in the order they began to wait
    job,                \* the running commitAndPush: position in its body, git commands of this attempt,
                        \* files written, commits made, events emitted
    repo,               \* the tracking repository: remotes, rebase in progress, staged files
    setups,             \* activations of GitService.ensureRepoSetup
    attempts,           \* calls of restoreAuthState / initializeSyncforge from their setup call on
    now,                \* the local time read by `new Date()` in commitAndPush
    orphans             \* the chain that dispose() has replaced: its unsettled promises and
                        \* the state of the settled promise the first of them chains on

trackerVars == <<isInitialized, excludePatterns, changes, clock, lastEvent>>
schedulerVars == <<timer, armed, commitFrequency, isCommiting, pendingChanges, flushes, timeouts, failedPaths>>
gitVars == <<operationQueue, chainState, setupRunning>>
gateVars == <<activeProcesses, callers, waiters>>
repoVars == <<job, repo, setups, attempts>>
lifeVars == <<now, orphans>>
execVars == <<gateVars, repoVars, lifeVars>>
vars == <<trackerVars, schedulerVars, gitVars, execVars>>

(***************************************************************************)
(* Bounds                                                                  *)
(***************************************************************************)
MaxClock == 3           \* tracked file events per behaviour
MaxQueue == 2           \* unsettled promises in the operation queue
MaxSetup == 2           \* concurrent direct ensureRepoSetup calls
MaxAttempts == 2        \* setup attempts (activation, logins) per behaviour
MaxDay == 2             \* days of the month the clock runs through
MaxTimeouts == 1        \* pending re-flush timeouts
NumCallers == 7         \* concurrent callers of withRetry / withProcessLimit

(***************************************************************************)
(* Strings                                                                 *)
(***************************************************************************)
Range(s) == {s[i] : i \in 1..Len(s)}

\* String.prototype.includes
Includes(s, sub) ==
    \E i \in 0..(Len(s) - Len(sub)) : SubSeq(s, i + 1, i + Len(sub)) = sub

StartsWith(s, prefix) ==
    Len(prefix) <= Len(s) /\ SubSeq(s, 1, Len(prefix)) = prefix

\* index of the last occurrence of character c in s, 0 when there is none
LastIndexOf(s, c) ==
    LET hits == {i \in 1..Len(s) : s[i] = c}
    IN IF hits = {} THEN 0 ELSE CHOOSE i \in hits : \A j \in hits : j <= i

IndexOf(s, c) ==
    LET hits == {i \in 1..Len(s) : s[i] = c}
    IN IF hits = {} THEN 0 ELSE CHOOSE i \in hits : \A j \in hits : i <= j

LowerChar(c) ==
    CASE c = "J" -> "j"
      [] c = "S" -> "s"
      [] c = "T" -> "t"
      [] c = "M" -> "m"
      [] c = "D" -> "d"
      [] OTHER -> c

\* String.prototype.toLowerCase
ToLowerCase(s) == [i \in 1..Len(s) |-> LowerChar(s[i])]

\* path.basename(p)
Basename(p) == SubSeq(p, LastIndexOf(p, "/") + 1, Len(p))

\* path.extname(p): from the last "." of the base name to its end; empty when the
\* base name has no "." or its only "." is its first character
ExtName(p) ==
    LET base == Basename(p)
        dot == LastIndexOf(base, ".")
    IN IF dot <= 1 THEN <<>> ELSE SubSeq(base, dot, Len(base))

RECURSIVE SplitPath(_)
\* the "/"-separated segments of s
SplitPath(s) ==
    LET i == IndexOf(s, "/")
    IN IF i = 0 THEN <<s>>
       ELSE <<SubSeq(s, 1, i - 1)>> \o SplitPath(SubSeq(s, i + 1, Len(s)))

(***************************************************************************)
(* minimatch(path, pattern), default options: "*" stays within a segment,  *)
(* "**" spans segments, neither matches a leading "."                      *)
(***************************************************************************)
GlobStar == <<"*", "*">>

RECURSIVE MatchChars(_, _)
MatchChars(pat, seg) ==
    IF pat = <<>> THEN seg = <<>>
    ELSE IF Head(pat) = "*"
         THEN \E k \in 0..Len(seg) : MatchChars(Tail(pat), SubSeq(seg, k + 1, Len(seg)))
         ELSE seg # <<>> /\ Head(seg) = Head(pat) /\ MatchChars(Tail(pat), Tail(seg))

IsDotSegment(seg) == seg # <<>> /\ seg[1] = "."

MatchSegment(pat, seg) ==
    /\ IsDotSegment(seg) => (pat # <<>> /\ pat[1] = ".")
    /\ seg # <<>>
    /\ MatchChars(pat, seg)

RECURSIVE MatchSegments(_, _)
MatchSegments(pats, segs) ==
    IF pats = <<>> THEN segs = <<>>
    ELSE IF Head(pats) = GlobStar
         THEN IF Len(pats) = 1
              THEN segs # <<>> /\ \A j \in 1..Len(segs) : ~IsDotSegment(segs[j])
              ELSE \E k \in 0..Len(segs) :
                      /\ \A j \in 1..k : ~IsDotSegment(segs[j])
                      /\ MatchSegments(Tail(pats), SubSeq(segs, k + 1, Len(segs)))
         ELSE /\ segs # <<>>
              /\ MatchSegment(Head(pats), Head(segs))
              /\ MatchSegments(Tail(pats), Tail(segs))

minimatch(path, pattern) == MatchSegments(SplitPath(pattern), SplitPath(path))

(***************************************************************************)
(* Inputs: the workspace, the tracking directory, the paths the watcher    *)
(* reports and the exclude lists the configuration can hold                *)
(***************************************************************************)
workspaceFolder == <<"/", "w">>
trackingDir == <<"/", "t">>

PathA == <<"/", "w", "/", "a", ".", "t", "s">>                  \* /w/a.ts
PathB == <<"/", "w", "/", "b", ".", "J", "S">>                  \* /w/b.JS
PathC == <<"/", "w", "/", "n", "/", "c", ".", "m", "d">>        \* /w/n/c.md
PathInTracking == <<"/", "t", "/", "d", ".", "t", "s">>         \* /t/d.ts
PathNearTracking == <<"/", "w", "/", "t", "/", "e", ".", "t", "s">>   \* /w/t/e.ts
PathExe == <<"/", "w", "/", "f", ".", "e", "x", "e">>           \* /w/f.exe
PathDotfile == <<"/", "w", "/", ".", "t", "s">>                 \* /w/.ts

EventPaths == {PathA, PathB, PathC, PathInTracking, PathNearTracking, PathExe, PathDotfile}

\* the paths of the flush pipeline's events
FlushPaths == {PathA, PathB}

PatternDir == <<"n", "/", "*", "*">>                             \* n/**
PatternTs == <<"*", ".", "t", "s">>                              \* *.ts

ExcludeChoices == {<<>>, <<PatternDir>>, <<PatternTs>>}

ChangeTypes == {"added", "changed", "deleted"}

(***************************************************************************)
(* Tracker                                                                 *)
(***************************************************************************)
\* vscode.workspace.asRelativePath: relative to the workspace folder when the path
\* lies in it, the path itself otherwise
asRelativePath(filePath) ==
    IF StartsWith(filePath, workspaceFolder \o <<"/">>)
    THEN SubSeq(filePath, Len(workspaceFolder) + 2, Len(filePath))
    ELSE filePath

trackedExtensions ==
    { <<"t", "s">>, <<"j", "s">>, <<"p", "y">>, <<"j", "a", "v", "a">>, <<"c">>,
      <<"c", "p", "p">>, <<"h">>, <<"h", "p", "p">>, <<"c", "s", "s">>,
      <<"s", "c", "s", "s">>, <<"h", "t", "m", "l">>, <<"j", "s", "x">>,
      <<"t", "s", "x">>, <<"v", "u", "e">>, <<"p", "h", "p">>, <<"r", "b">>,
      <<"g", "o">>, <<"r", "s">>, <<"s", "w", "i", "f", "t">>, <<"m", "d">>,
      <<"j", "s", "o", "n">>, <<"y", "m", "l">>, <<"y", "a", "m", "l">> }

\* fileExt of shouldTrackFile: path.extname(filePath).toLowerCase().slice(1)
FileExt(filePath) ==
    LET ext == ToLowerCase(ExtName(filePath))
    IN SubSeq(ext, 2, Len(ext))

InTrackingDirCheck(filePath) == Includes(filePath, trackingDir)

IsExcluded(filePath, patterns) ==
    \E i \in 1..Len(patterns) : minimatch(asRelativePath(filePath), patterns[i])

ExtensionTracked(filePath) ==
    FileExt(filePath) # <<>> /\ FileExt(filePath) \in trackedExtensions

shouldTrackFile(filePath, patterns) ==
    IF InTrackingDirCheck(filePath) THEN FALSE
    ELSE IF IsExcluded(filePath, patterns) THEN FALSE
    ELSE ExtensionTracked(filePath)

\* Map.prototype.has / get on Tracker.changes
MapHas(map, key) == \E i \in 1..Len(map) : map[i].uri = key
MapIndex(map, key) == CHOOSE i \in 1..Len(map) : map[i].uri = key
MapGet(map, key) == map[MapIndex(map, key)]
MapKeys(map) == {map[i].uri : i \in 1..Len(map)}

\* a mutant: every set appends an entry
MapSetAppending(map, key, value) == Append(map, value)

\* a mutant: setting an existing key moves its entry to the end
MapSetMovingLast(map, key, value) ==
    Append(SelectSeq(map, LAMBDA r : r.uri # key), value)

\* Map.prototype.set: an existing key keeps its position, a new key goes last
MapSet(map, key, value) ==
    IF MapHas(map, key)
    THEN [map EXCEPT ![MapIndex(map, key)] = value]
    ELSE Append(map, value)

\* a mutant: a record keeps the type it has
ResolveTypeKept(existing, type) == IF existing # "none" THEN existing ELSE type

\* a mutant: the event's type is always stored
ResolveTypeLatest(existing, type) == type

\* the type handleChange stores for an event of `type` on a path whose record
\* has type `existing` ("none" without a record)
ResolveType(existing, type) ==
    IF existing # "none"
    THEN IF existing = "deleted" /\ type = "added" THEN "added"
         ELSE IF existing = "added" /\ type = "changed" THEN "added"
         ELSE type
    ELSE type

ExistingType(map, key) == IF MapHas(map, key) THEN MapGet(map, key).type ELSE "none"

NoEvent == [uri |-> <<>>, type |-> "none", existing |-> "none", tracked |-> FALSE]

\* Tracker.initializeWatcher, run by initialize() from the constructor and from
\* handleChange while the watcher is not initialized
InitializeWatcher(ok, patterns) ==
    /\ ~isInitialized
    /\ excludePatterns' = patterns
    /\ isInitialized' = ok
    /\ UNCHANGED <<changes, clock, lastEvent, schedulerVars, gitVars>>
    /\ UNCHANGED execVars

\* Tracker.updateExcludePatterns
UpdateExcludePatterns(newPatterns) ==
    /\ excludePatterns' = newPatterns
    /\ UNCHANGED <<isInitialized, changes, clock, lastEvent, schedulerVars, gitVars>>
    /\ UNCHANGED execVars

\* Tracker.handleChange
HandleChange(uri, type) ==
    /\ clock < MaxClock
    /\ IF ~isInitialized \/ ~shouldTrackFile(uri, excludePatterns)
       THEN /\ lastEvent' = [uri |-> uri, type |-> type, existing |-> "none", tracked |-> FALSE]
            /\ UNCHANGED <<changes, clock>>
       ELSE LET existing == ExistingType(changes, uri)
                change == [uri |-> uri, timeStamp |-> clock + 1,
                           type |-> ResolveType(existing, type)]
            IN /\ changes' = MapSet(changes, uri, change)
               /\ clock' = clock + 1
               /\ lastEvent' = [uri |-> uri, type |-> type, existing |-> existing, tracked |-> TRUE]
    /\ UNCHANGED <<isInitialized, excludePatterns, schedulerVars, gitVars>>
    /\ UNCHANGED execVars

\* Tracker.getChangedFiles
getChangedFiles == changes


\* Tracker.clearChanges
clearChanges == <<>>

(***************************************************************************)
(* GitService: the operation queue                                         *)
(***************************************************************************)
OperationKinds == {"commitAndPush", "initializeRepo", "recordChanges", "commitChanges"}

RemoveAt(s, i) == SubSeq(s, 1, i - 1) \o SubSeq(s, i + 1, Len(s))

\* a mutant: the new promise is not chained on the previous one
ChainedOnPrevious(i) == TRUE

\* the promise at position i chains on the promise before it
\* (this.operationQueue.then(() => operation())): its predecessor has settled
PredecessorSettled(i) == i = 1

\* .then(() => operation()) runs operation() only on a fulfilled predecessor
RunsAfter(state) == state = "fulfilled"

\* GitService.enqueueOperation: chain a promise for `kind` on the queue
Enqueued(queue, kind, owner) ==
    Append(queue, [kind |-> kind, owner |-> owner, state |-> "pending"])

RunningOperations == {i \in 1..Len(operationQueue) : operationQueue[i].state = "running"}

(***************************************************************************)
(* Scheduler                                                               *)
(***************************************************************************)
Frequencies == {5, 10, 30}

\* delay handed to setInterval by Scheduler.start
IntervalMs(minutes) == minutes * 60 * 1000

FreshFlush ==
    CHOOSE f \in 1..(Cardinality(flushes) + 1) : \A a \in flushes : a.id # f

Flush(f) == CHOOSE a \in flushes : a.id = f

\* clearInterval
ClearInterval(timers, h) == {t \in timers : t.handle # h}

\* the handle setInterval returns: one that no armed interval has
NextHandle(timers) ==
    CHOOSE n \in 1..(Cardinality(timers) + 1) : \A t \in timers : t.handle # n

\* a mutant: start arms a new interval without cancelling the existing one
ClearedNothing(timers, current) == timers

\* `if (this.timer) { clearInterval(this.timer); }` of Scheduler.start
Cleared(timers, current) ==
    IF current # 0 THEN ClearInterval(timers, current) ELSE timers

\* the armed intervals after Scheduler.start
Started(timers, current, minutes) ==
    Cleared(timers, current) \cup
        {[handle |-> NextHandle(Cleared(timers, current)), delay |-> IntervalMs(minutes)]}

\* Scheduler.start
Start ==
    /\ armed' = Started(armed, timer, commitFrequency)
    /\ timer' = NextHandle(Cleared(armed, timer))
    /\ UNCHANGED <<commitFrequency, isCommiting, pendingChanges, flushes, timeouts,
                   failedPaths, trackerVars, gitVars>>
    /\ UNCHANGED execVars

\* the armed intervals after Scheduler.stop
Stopped(timers, current) ==
    IF current # 0 THEN ClearInterval(timers, current) ELSE timers

\* Scheduler.stop
Stop ==
    /\ timer # 0
    /\ armed' = ClearInterval(armed, timer)
    /\ timer' = 0
    /\ UNCHANGED <<commitFrequency, isCommiting, pendingChanges, flushes, timeouts,
                   failedPaths, trackerVars, gitVars>>
    /\ UNCHANGED execVars

\* a mutant: the new frequency is stored and the timer is not re-armed
UpdateFrequencyNoRestart(newFrequency) ==
    /\ commitFrequency' = newFrequency
    /\ UNCHANGED <<armed, timer>>
    /\ UNCHANGED <<isCommiting, pendingChanges, flushes, timeouts,
                   failedPaths, trackerVars, gitVars>>
    /\ UNCHANGED execVars

\* Scheduler.updateFrequency
UpdateFrequency(newFrequency) ==
    /\ commitFrequency' = newFrequency
    /\ armed' = Started(armed, timer, newFrequency)
    /\ timer' = NextHandle(Cleared(armed, timer))
    /\ UNCHANGED <<isCommiting, pendingChanges, flushes, timeouts,
                   failedPaths, trackerVars, gitVars>>
    /\ UNCHANGED execVars

\* a mutant: the busy flag is not consulted
CommitInProgressIgnored == FALSE

\* the guard at the head of Scheduler.commitChanges
CommitInProgress == isCommiting

\* Scheduler.commitChanges up to its first await (generateSummary)
CommitChanges ==
    IF CommitInProgress
    THEN /\ pendingChanges' = TRUE
         /\ UNCHANGED <<isCommiting, flushes>>
    ELSE LET changedFiles == getChangedFiles
         IN IF Len(changedFiles) = 0
            THEN UNCHANGED <<isCommiting, pendingChanges, flushes>>
            ELSE /\ isCommiting' = TRUE
                 /\ flushes' = flushes \cup
                        {[id |-> FreshFlush, pc |-> "summary", changedFiles |-> changedFiles]}
                 /\ UNCHANGED pendingChanges

\* the interval armed by start fires
TimerFire(h) ==
    /\ \E t \in armed : t.handle = h
    /\ (isCommiting /\ ~pendingChanges) => timeouts < MaxTimeouts
    /\ CommitChanges
    /\ UNCHANGED <<timer, armed, commitFrequency, timeouts, failedPaths, trackerVars, gitVars>>
    /\ UNCHANGED execVars

\* the 5 s timeout set by the finally block fires
TimeoutFire ==
    /\ timeouts > 0
    /\ timeouts' = timeouts - 1
    /\ CommitChanges
    /\ UNCHANGED <<timer, armed, commitFrequency, failedPaths, trackerVars, gitVars>>
    /\ UNCHANGED execVars

\* a mutant: a re-flush is scheduled whether or not pendingChanges is set
FinallyAlwaysReflushes(f) ==
    /\ isCommiting' = FALSE
    /\ pendingChanges' = FALSE
    /\ timeouts' = timeouts + 1
    /\ flushes' = {a \in flushes : a.id # f}

\* the finally block of Scheduler.commitChanges, ending activation f
Finally(f) ==
    /\ isCommiting' = FALSE
    /\ IF pendingChanges
       THEN pendingChanges' = FALSE /\ timeouts' = timeouts + 1
       ELSE UNCHANGED <<pendingChanges, timeouts>>
    /\ flushes' = {a \in flushes : a.id # f}

\* activation f hands its job to GitService.commitAndPush
SubmitJob(f) ==
    /\ Len(operationQueue) < MaxQueue
    /\ operationQueue' = Enqueued(operationQueue, "commitAndPush", f)
    /\ flushes' = {IF a.id = f THEN [a EXCEPT !.pc = "git"] ELSE a : a \in flushes}
    /\ UNCHANGED <<isCommiting, pendingChanges, timeouts>>

\* generateSummary has resolved; confirmBeforeCommit is read from the configuration
SummaryDone(f, confirmBeforeCommit) ==
    /\ \E a \in flushes : a.id = f /\ a.pc = "summary"
    /\ IF confirmBeforeCommit
       THEN /\ flushes' = {IF a.id = f THEN [a EXCEPT !.pc = "confirm"] ELSE a : a \in flushes}
            /\ UNCHANGED <<isCommiting, pendingChanges, timeouts, operationQueue>>
       ELSE SubmitJob(f)
    /\ UNCHANGED <<timer, armed, commitFrequency, failedPaths, trackerVars,
                   chainState, setupRunning>>
    /\ UNCHANGED execVars

\* a mutant: the job is submitted whatever the user answers
ConfirmAnswerSubmits(f, proceed) ==
    /\ \E a \in flushes : a.id = f /\ a.pc = "confirm"
    /\ SubmitJob(f)
    /\ UNCHANGED <<timer, armed, commitFrequency, failedPaths, trackerVars,
                   chainState, setupRunning>>
    /\ UNCHANGED execVars

\* the user answers the confirmation dialog
ConfirmAnswer(f, proceed) ==
    /\ \E a \in flushes : a.id = f /\ a.pc = "confirm"
    /\ IF proceed
       THEN SubmitJob(f)
       ELSE Finally(f) /\ UNCHANGED operationQueue
    /\ UNCHANGED <<timer, armed, commitFrequency, failedPaths, trackerVars,
                   chainState, setupRunning>>
    /\ UNCHANGED execVars

\* a mutant: the ledger is cleared whatever the outcome
LedgerAfterFlushCleared(ok, ledger) == clearChanges

\* the ledger after `await this.gitService.commitAndPush(commitMessage)` returned
\* (ok) or threw
LedgerAfterFlush(ok, ledger) == IF ok THEN clearChanges ELSE ledger

JobPaths(f) == MapKeys(Flush(f).changedFiles)

\* the awaiting caller of a settled promise resumes: an activation of
\* Scheduler.commitChanges (owner > 0), or a caller outside the Scheduler
Resume(owner, ok) ==
    IF owner = 0
    THEN UNCHANGED <<changes, isCommiting, pendingChanges, timeouts, flushes, failedPaths>>
    ELSE /\ changes' = LedgerAfterFlush(ok, changes)
         /\ failedPaths' = IF ok THEN failedPaths \ JobPaths(owner)
                           ELSE failedPaths \cup JobPaths(owner)
         /\ Finally(owner)

(***************************************************************************)
(* GitService: operations                                                  *)
(***************************************************************************)
\* a caller other than the Scheduler submits an operation (the website command's
\* commitAndPush, restoreAuthState's initializeRepo, recordChanges, commitChanges)
Enqueue(kind) ==
    /\ Len(operationQueue) < MaxQueue
    /\ operationQueue' = Enqueued(operationQueue, kind, 0)
    /\ UNCHANGED <<chainState, setupRunning, trackerVars, schedulerVars>>
    /\ UNCHANGED execVars

\* the predecessor fulfilled: operation() starts
OperationStarts(i) ==
    /\ i \in 1..Len(operationQueue)
    /\ operationQueue[i].state = "pending"
    /\ PredecessorSettled(i)
    /\ RunsAfter(chainState)
    /\ operationQueue' = [operationQueue EXCEPT ![i].state = "running"]
    /\ UNCHANGED <<chainState, setupRunning, trackerVars, schedulerVars>>

\* operation() starts, its body not followed
StartOperation(i) == OperationStarts(i) /\ UNCHANGED execVars

\* the predecessor rejected: the promise rejects and operation() is never called
SkipOperation ==
    /\ Len(operationQueue) > 0
    /\ operationQueue[1].state = "pending"
    /\ ~RunsAfter(chainState)
    /\ operationQueue' = Tail(operationQueue)
    /\ Resume(operationQueue[1].owner, FALSE)
    /\ UNCHANGED <<chainState, setupRunning, isInitialized, excludePatterns, clock,
                   lastEvent, timer, armed, commitFrequency>>
    /\ UNCHANGED execVars

\* operation() of the promise at position i returns (ok) or throws
PromiseSettles(i, ok) ==
    /\ i \in RunningOperations
    /\ chainState' = IF ok THEN "fulfilled" ELSE "rejected"
    /\ operationQueue' = RemoveAt(operationQueue, i)
    /\ Resume(operationQueue[i].owner, ok)
    /\ UNCHANGED <<setupRunning, isInitialized, excludePatterns, clock,
                   lastEvent, timer, armed, commitFrequency>>

\* operation() settles, its body not followed
SettleOperation(i, ok) == PromiseSettles(i, ok) /\ UNCHANGED execVars

\* restoreAuthState / initializeSyncforge call GitService.ensureRepoSetup directly
EnsureRepoSetupCall ==
    /\ setupRunning < MaxSetup
    /\ setupRunning' = setupRunning + 1
    /\ UNCHANGED <<operationQueue, chainState, trackerVars, schedulerVars>>
    /\ UNCHANGED execVars

\* a direct ensureRepoSetup call returns or throws
EnsureRepoSetupReturn ==
    /\ setupRunning > 0
    /\ setupRunning' = setupRunning - 1
    /\ UNCHANGED <<operationQueue, chainState, trackerVars, schedulerVars>>
    /\ UNCHANGED execVars

\* no chain has been replaced
NoOrphans == [queue |-> <<>>, chainState |-> "fulfilled"]

\* GitService.cleanUp, called from outside
CleanUp ==
    /\ activeProcesses' = 0
    /\ UNCHANGED <<trackerVars, schedulerVars, gitVars, callers, waiters, repoVars, lifeVars>>

\* GitService.dispose: operationQueue is a new resolved promise, the promises
\* chained on the old one stay as they are, and cleanUp() follows (followed for
\* one replaced chain at a time)
Dispose ==
    /\ orphans.queue = <<>>
    /\ orphans' = [queue |-> operationQueue, chainState |-> chainState]
    /\ operationQueue' = <<>>
    /\ chainState' = "fulfilled"
    /\ activeProcesses' = 0
    /\ UNCHANGED <<setupRunning, trackerVars, schedulerVars, callers, waiters, repoVars, now>>

\* the first promise of the replaced chain goes on as it would have: operation()
\* starts after a fulfilled predecessor, is skipped after a rejected one, and a
\* running operation() returns (ok) or throws
OldChainStep(ok) ==
    /\ orphans.queue # <<>>
    /\ LET head == Head(orphans.queue)
       IN IF head.state = "pending" /\ RunsAfter(orphans.chainState)
          THEN /\ ok
               /\ orphans' = [orphans EXCEPT !.queue[1].state = "running"]
               /\ UNCHANGED <<changes, isCommiting, pendingChanges, timeouts, flushes, failedPaths>>
          ELSE IF head.state = "pending"
          THEN /\ ~ok
               /\ orphans' = [orphans EXCEPT !.queue = Tail(@)]
               /\ Resume(head.owner, FALSE)
          ELSE /\ orphans' = [queue |-> Tail(orphans.queue),
                              chainState |-> IF ok THEN "fulfilled" ELSE "rejected"]
               /\ Resume(head.owner, ok)
    /\ UNCHANGED <<gitVars, isInitialized, excludePatterns, clock, lastEvent, timer, armed,
                   commitFrequency, gateVars, repoVars, now>>

(***************************************************************************)
(* GitService: the process-limit gate and the retry policy                 *)
(***************************************************************************)
PROCESS_LIMIT == 5

MAX_RETRIES == 3

RETRY_DELAY == 1000

Callers == 1..NumCallers

\* error messages of failed git commands
ErrEAGAIN == <<"s", "p", "a", "w", "n", " ", "E", "A", "G", "A", "I", "N">>
ErrRejected == <<"!", " ", "[", "r", "e", "j", "e", "c", "t", "e", "d", "]">>
ErrStaleInfo == <<"(", "s", "t", "a", "l", "e", " ", "i", "n", "f", "o", ")">>
ErrConflict == <<"C", "O", "N", "F", "L", "I", "C", "T">>
ErrDenied == <<"d", "e", "n", "i", "e", "d">>
ErrLowerEagain == <<"e", "a", "g", "a", "i", "n">>

Succeeded == [ok |-> TRUE, message |-> <<>>]
Failed(message) == [ok |-> FALSE, message |-> message]

\* what an operation handed to withRetry may do
OperationOutcomes ==
    {Succeeded} \cup {Failed(m) : m \in {ErrEAGAIN, ErrRejected, ErrDenied, ErrLowerEagain}}

\* error.message?.includes('EAGAIN')
IsTransient(message) == Includes(message, <<"E", "A", "G", "A", "I", "N">>)

\* a mutant: the last attempt is retried as well
MayRetryOnLast(attempt) == attempt <= MAX_RETRIES

\* `attempt < retries`, retries defaulting to MAX_RETRIES
MayRetry(attempt) == attempt < MAX_RETRIES

IdleCaller == [pc |-> "idle", attempt |-> 0, runs |-> 0, delays |-> <<>>, error |-> <<>>]

\* a mutant: the gate admits one caller more than the limit
GateFullAbove == activeProcesses > PROCESS_LIMIT

\* the loop condition of withProcessLimit
GateFull == activeProcesses >= PROCESS_LIMIT

\* caller c, its record being rec, calls withProcessLimit: it sleeps when the gate
\* is full, otherwise it takes a slot and operation() starts
EnterGate(c, rec) ==
    IF GateFull
    THEN /\ callers' = [callers EXCEPT ![c] = [rec EXCEPT !.pc = "waiting"]]
         /\ waiters' = Append(waiters, c)
         /\ UNCHANGED activeProcesses
    ELSE /\ callers' = [callers EXCEPT ![c] = [rec EXCEPT !.pc = "running", !.runs = @ + 1]]
         /\ activeProcesses' = activeProcesses + 1
         /\ UNCHANGED waiters

\* withRetry is called: attempt 1
WithRetryCall(c) ==
    /\ callers[c].pc \in {"idle", "returned", "threw"}
    /\ EnterGate(c, [IdleCaller EXCEPT !.attempt = 1])
    /\ UNCHANGED <<trackerVars, schedulerVars, gitVars, repoVars, lifeVars>>

\* the 100 ms sleep of a waiting caller ends and the loop condition is read again
PollGate(c) ==
    /\ callers[c].pc = "waiting"
    /\ IF GateFull
       THEN UNCHANGED gateVars
       ELSE /\ callers' = [callers EXCEPT ![c].pc = "running", ![c].runs = @ + 1]
            /\ activeProcesses' = activeProcesses + 1
            /\ waiters' = SelectSeq(waiters, LAMBDA w : w # c)
    /\ UNCHANGED <<trackerVars, schedulerVars, gitVars, repoVars, lifeVars>>

\* withRetry's catch block and return, for the outcome of operation()
AfterAttempt(rec, outcome) ==
    IF outcome.ok
    THEN [rec EXCEPT !.pc = "returned"]
    ELSE IF IsTransient(outcome.message) /\ MayRetry(rec.attempt)
         THEN [rec EXCEPT !.pc = "delay", !.delays = Append(@, RETRY_DELAY * rec.attempt)]
         ELSE [rec EXCEPT !.pc = "threw", !.error = outcome.message]

\* operation() of caller c returns or throws: the finally block of
\* withProcessLimit releases the slot, then withRetry returns, sleeps or throws
LeaveGate(c, outcome) ==
    /\ callers[c].pc = "running"
    /\ activeProcesses' = activeProcesses - 1
    /\ callers' = [callers EXCEPT ![c] = AfterAttempt(callers[c], outcome)]
    /\ UNCHANGED waiters

\* an operation whose body is not followed settles with the given outcome
OperationSettles(c, outcome) ==
    /\ LeaveGate(c, outcome)
    /\ UNCHANGED <<trackerVars, schedulerVars, gitVars, repoVars, lifeVars>>

\* the retry delay has passed: the next attempt
RetryWake(c) ==
    /\ callers[c].pc = "delay"
    /\ EnterGate(c, [callers[c] EXCEPT !.attempt = @ + 1])
    /\ UNCHANGED <<trackerVars, schedulerVars, gitVars, repoVars, lifeVars>>

(***************************************************************************)
(* GitService.commitAndPush                                                *)
(***************************************************************************)
\* one call of commitAndPush: where its body is, the git commands of the current
\* withRetry attempt, the source paths of the records its message was composed
\* from, the files it has written under changes/ (name and the record whose
\* content the file holds), filesToAdd, the commits it has created and the events
\* it has handed to emitSafe
IdleJob == [pc |-> "idle", commands |-> <<>>, records |-> <<>>, files |-> {},
            filesToAdd |-> <<>>, commits |-> <<>>, events |-> <<>>]

\* the tracking directory before ensureRepoSetup has run on it; index holds the
\* staged files
NewRepo == [isRepo |-> FALSE, remotes |-> {}, rebasing |-> FALSE, index |-> {}]

\* /w/n/a.ts: the base name of /w/a.ts in another directory
PathNestedA == <<"/", "w", "/", "n", "/", "a", ".", "t", "s">>

\* the records of a job submitted by a caller outside the Scheduler
OutsideRecords == {<<PathA>>, <<PathA, PathB>>, <<PathA, PathNestedA>>}

\* a Date in local time; the instants of a behaviour lie in November 2026
Instants == [day : 1..MaxDay, hours : {0, 1, 11, 12, 13, 23}, minutes : {0, 59},
             seconds : {0, 59}]

\* the time at activation
Epoch == [day |-> 1, hours |-> 0, minutes |-> 0, seconds |-> 0]

\* num.toString().padStart(2, '0') for 0 <= num <= 99
pad(num) ==
    LET digits == <<"0", "1", "2", "3", "4", "5", "6", "7", "8", "9">>
    IN <<digits[(num \div 10) + 1], digits[(num % 10) + 1]>>

\* formatTime of formatTimestamp: `${pad(hours)}${pad(minutes)}-${pad(seconds)}-${ampm}`
\* on the 12-hour clock
formatTime(date) ==
    LET ampm == IF date.hours >= 12 THEN <<"P", "M">> ELSE <<"A", "M">>
        hours == IF date.hours % 12 # 0 THEN date.hours % 12 ELSE 12
    IN pad(hours) \o pad(date.minutes) \o <<"-">> \o pad(date.seconds) \o <<"-">> \o ampm

\* formatTimestamp(date).sortable: `${year}-${month}-${day}-${formatTime(date)}`
formatTimestamp(date) ==
    <<"2", "0", "2", "6", "-">> \o pad(11) \o <<"-">> \o pad(date.day) \o <<"-">> \o
        formatTime(date)

\* timestamp.sortable of a call: formatTimestamp(new Date()) is taken once per call
sortable == formatTimestamp(now)

\* `${timestamp.sortable}-${baseNameWithoutExt}${extension}` for the code block
\* of the record of `uri`, whose file name in the message is
\* path.basename(change.uri.fsPath)
TimestampedFilename(uri) ==
    LET cleanFilename == Basename(uri)
        extension == ExtName(cleanFilename)
        baseNameWithoutExt ==
            SubSeq(Basename(cleanFilename), 1, Len(Basename(cleanFilename)) - Len(extension))
    IN sortable \o <<"-">> \o baseNameWithoutExt \o extension

\* filesToAdd after the loop over the code blocks of the message
FilesToAdd(records) == [i \in 1..Len(records) |-> TimestampedFilename(records[i])]

\* the files under changes/ after the loop: writeFile replaces a file of the
\* same name, so each name holds the content of the last block that has it
Materialized(records) ==
    {[name |-> FilesToAdd(records)[i], from |-> records[i]] :
        i \in {k \in 1..Len(records) :
                \A j \in (k + 1)..Len(records) :
                    FilesToAdd(records)[j] # FilesToAdd(records)[k]}}

\* path.join(this.currentTrackingDir, 'stats'), written by updateStatsData
statsDir == <<"s", "t", "a", "t", "s">>

\* a mutant: a blanket stage-all
StagedAll(filesToAdd) == Range(filesToAdd) \cup {statsDir}

\* for (const file of filesToAdd) { await this.git.add(file); }
Staged(filesToAdd) == Range(filesToAdd)

\* the withRetry call of commitAndPush
JobCaller == 1

\* the queued commitAndPush whose operation() is running
JobIndex == CHOOSE i \in RunningOperations : operationQueue[i].kind = "commitAndPush"

\* the awaits of the function handed to withRetry, in order
GitSteps == <<"branch", "add", "commit", "fetch", "merge", "push", "refetch", "rebase", "repush">>

\* the git command run at a step
Command(step) ==
    CASE step = "refetch" -> "fetch"
      [] step = "repush" -> "push"
      [] OTHER -> step

\* errors a git command may fail with
GitErrors(step) ==
    CASE step \in {"push", "repush"} -> {ErrRejected, ErrStaleInfo, ErrDenied, ErrEAGAIN}
      [] step = "rebase" -> {ErrConflict, ErrEAGAIN}
      [] OTHER -> {ErrDenied, ErrEAGAIN}

GitOutcomes(step) == {Succeeded} \cup {Failed(m) : m \in GitErrors(step)}

\* pushError.message.includes('rejected') || pushError.message.includes('stale info')
PushRejected(message) ==
    \/ Includes(message, <<"r", "e", "j", "e", "c", "t", "e", "d">>)
    \/ Includes(message, <<"s", "t", "a", "l", "e", " ", "i", "n", "f", "o">>)

\* a mutant: a failure of the pre-push fetch or merge fails the attempt
AfterCommandStrict(step, outcome) ==
    IF outcome.ok
    THEN CASE step = "branch" -> "add"
           [] step = "add" -> "commit"
           [] step = "commit" -> "fetch"
           [] step = "fetch" -> "merge"
           [] step = "merge" -> "push"
           [] step = "push" -> "return"
           [] step = "refetch" -> "rebase"
           [] step = "rebase" -> "repush"
           [] step = "repush" -> "return"
    ELSE CASE step = "push" -> IF PushRejected(outcome.message) THEN "refetch" ELSE "throw"
           [] OTHER -> "throw"

\* where the body goes after the command of `step` ended with `outcome`:
\* a later step, "return", or "throw"
AfterCommand(step, outcome) ==
    IF outcome.ok
    THEN CASE step = "branch" -> "add"
           [] step = "add" -> "commit"
           [] step = "commit" -> "fetch"
           [] step = "fetch" -> "merge"
           [] step = "merge" -> "push"
           [] step = "push" -> "return"
           [] step = "refetch" -> "rebase"
           [] step = "rebase" -> "repush"
           [] step = "repush" -> "return"
    ELSE CASE step \in {"fetch", "merge"} -> "push"
           [] step = "push" -> IF PushRejected(outcome.message) THEN "refetch" ELSE "throw"
           [] OTHER -> "throw"

\* the repository after the command of `step`: git add stages the files that
\* differ from the last commit, git commit empties the index, and git rebase
\* stopping on a conflict leaves the rebase in progress
RepoAfter(step, outcome) ==
    CASE step = "add" /\ outcome.ok ->
            [repo EXCEPT !.index = @ \cup (Staged(job.filesToAdd) \
                                            UNION {c.files : c \in Range(job.commits)})]
      [] step = "commit" /\ outcome.ok -> [repo EXCEPT !.index = {}]
      [] step = "rebase" /\ ~outcome.ok /\ Includes(outcome.message, ErrConflict) ->
            [repo EXCEPT !.rebasing = TRUE]
      [] OTHER -> repo

\* the commits of the call after the command of `step`: git commit creates one
\* from a non-empty index (with nothing staged it reports "nothing to commit"
\* and returns)
CommitsAfter(step, outcome) ==
    IF step = "commit" /\ outcome.ok /\ repo.index # {}
    THEN Append(job.commits, [message |-> "updatedMessage", files |-> repo.index])
    ELSE job.commits

\* a mutant: 'push' is emitted after the commit and 'commit' after the push
EmittedSwapped(step, outcome) ==
    CASE step = "commit" /\ outcome.ok -> <<"push">>
      [] step = "push" /\ outcome.ok -> <<"commit">>
      [] OTHER -> <<>>

\* the events the body hands to emitSafe after the command of `step`
Emitted(step, outcome) ==
    CASE step = "commit" /\ outcome.ok -> <<"commit">>
      [] step = "push" /\ outcome.ok -> <<"push">>
      [] OTHER -> <<>>

\* the records of the message of queued operation i
JobRecords(i) ==
    IF operationQueue[i].owner = 0
    THEN OutsideRecords
    ELSE {[k \in 1..Len(Flush(operationQueue[i].owner).changedFiles) |->
                Flush(operationQueue[i].owner).changedFiles[k].uri]}

\* no promise of the queue settles in this step
NoSettle == UNCHANGED <<trackerVars, schedulerVars, gitVars>>

\* operation() of a queued commitAndPush starts: the code up to the first await
CommitAndPushStarts(i) ==
    /\ operationQueue[i].kind = "commitAndPush"
    /\ job.pc = "idle"
    /\ OperationStarts(i)
    /\ \E records \in JobRecords(i) :
            job' = [IdleJob EXCEPT !.pc = "materialize", !.records = records]
    /\ UNCHANGED <<gateVars, repo, setups, attempts, lifeVars>>

\* the files of the message are written (ok), 'operation:start' is emitted and
\* withRetry is called; a failed write goes to the catch block, which emits
\* 'error' and rethrows
Materialize(ok) ==
    /\ job.pc = "materialize"
    /\ IF ok
       THEN /\ EnterGate(JobCaller, [IdleCaller EXCEPT !.attempt = 1])
            /\ job' = [job EXCEPT !.pc = "branch",
                                  !.files = Materialized(job.records),
                                  !.filesToAdd = FilesToAdd(job.records),
                                  !.events = Append(@, "operation:start")]
            /\ NoSettle
       ELSE /\ PromiseSettles(JobIndex, FALSE)
            /\ job' = [job EXCEPT !.pc = "idle", !.events = Append(@, "error")]
            /\ UNCHANGED gateVars
    /\ UNCHANGED <<repo, setups, attempts, lifeVars>>

\* the git command of the current step ends; the body goes on, returns to
\* withRetry or throws to it, and a throw that withRetry does not retry reaches
\* the catch block of commitAndPush, which rethrows
GitCommand(outcome) ==
    /\ job.pc \in Range(GitSteps)
    /\ callers[JobCaller].pc = "running"
    /\ outcome \in GitOutcomes(job.pc)
    /\ repo' = RepoAfter(job.pc, outcome)
    /\ UNCHANGED <<setups, attempts, lifeVars>>
    /\ LET after == AfterCommand(job.pc, outcome)
           ran == [job EXCEPT !.commands = Append(@, Command(job.pc)),
                              !.commits = CommitsAfter(job.pc, outcome),
                              !.events = @ \o Emitted(job.pc, outcome)]
       IN CASE after = "return" ->
                 /\ LeaveGate(JobCaller, Succeeded)
                 /\ job' = [ran EXCEPT !.pc = "stats",
                                       !.events = Append(@, "operation:end")]
                 /\ NoSettle
            [] after = "throw" /\ AfterAttempt(callers[JobCaller], outcome).pc = "delay" ->
                 /\ LeaveGate(JobCaller, outcome)
                 /\ job' = [ran EXCEPT !.pc = "delay"]
                 /\ NoSettle
            [] after = "throw" /\ AfterAttempt(callers[JobCaller], outcome).pc = "threw" ->
                 /\ LeaveGate(JobCaller, outcome)
                 /\ job' = [ran EXCEPT !.pc = "idle", !.events = Append(@, "error")]
                 /\ PromiseSettles(JobIndex, FALSE)
            [] OTHER ->
                 /\ job' = [ran EXCEPT !.pc = after]
                 /\ UNCHANGED gateVars
                 /\ NoSettle

\* the retry delay of commitAndPush's withRetry has passed: the body runs again
JobRetryWake ==
    /\ job.pc = "delay"
    /\ EnterGate(JobCaller, [callers[JobCaller] EXCEPT !.attempt = @ + 1])
    /\ job' = [job EXCEPT !.pc = "branch", !.commands = <<>>]
    /\ NoSettle
    /\ UNCHANGED <<repo, setups, attempts, lifeVars>>

\* getUpdatedStats and updateStatsData return (ok), having committed and pushed
\* the stats directory, or throw; commitAndPush returns, or emits 'error' and
\* rethrows
StatsUpdate(ok) ==
    /\ job.pc = "stats"
    /\ PromiseSettles(JobIndex, ok)
    /\ job' = IF ok
              THEN [job EXCEPT !.pc = "idle",
                               !.commits = Append(@,
                                    [message |-> "Syncforge: Update Statistics data and Website",
                                     files |-> {statsDir}])]
              ELSE [job EXCEPT !.pc = "idle", !.events = Append(@, "error")]
    /\ UNCHANGED <<gateVars, repo, setups, attempts, lifeVars>>

(***************************************************************************)
(* GitService.ensureRepoSetup                                              *)
(***************************************************************************)
Origin == <<"o", "r", "i", "g", "i", "n">>

\* remote URLs handed to ensureRepoSetup (they embed the access token)
UrlA == <<"g", "i", "t", "/", "a">>
UrlB == <<"g", "i", "t", "/", "b">>
RemoteUrls == {UrlA, UrlB}

\* `value` of getConfig for a key that is not set
NullUrl == <<>>

\* remotes.some((remote) => remote.name === 'origin')
HasOrigin(remotes) == \E r \in remotes : r.name = Origin

\* git config remote.origin.url
OriginUrl(remotes) ==
    IF HasOrigin(remotes) THEN (CHOOSE r \in remotes : r.name = Origin).url ELSE NullUrl

\* a mutant: origin is replaced when its URL is the expected one
NeedsReplaceInverted(currentRemote, remoteUrl) == currentRemote = remoteUrl

\* currentRemote !== remoteUrl && currentRemote !== null
NeedsReplace(currentRemote, remoteUrl) ==
    currentRemote # remoteUrl /\ currentRemote # NullUrl

\* the output of `git remote -v` is non-empty and includes 'origin'
VerifiedOrigin(remotes) ==
    \E r \in remotes : Includes(r.name, Origin) \/ Includes(r.url, Origin)

FreshSetup ==
    CHOOSE n \in 1..(Cardinality(setups) + 1) : \A a \in setups : a.id # n

\* ensureRepoSetup(remoteUrl) is called; `before` keeps the remotes at the call and
\* `alone` whether no other call has overlapped it
SetupCalled(remoteUrl) ==
    /\ Cardinality(setups) < MaxSetup
    /\ setups' = {[a EXCEPT !.alone = FALSE] : a \in setups} \cup
                    {[id |-> FreshSetup, url |-> remoteUrl, pc |-> "isRepo",
                      before |-> repo.remotes, alone |-> setups = {},
                      fetched |-> FALSE, reset |-> FALSE]}
    /\ setupRunning' = setupRunning + 1
    /\ UNCHANGED <<trackerVars, schedulerVars, operationQueue, chainState, gateVars, job, repo>>

\* a call of ensureRepoSetup whose caller is not followed
SetupBegins(remoteUrl) == SetupCalled(remoteUrl) /\ UNCHANGED <<attempts, lifeVars>>

\* services.scheduler is set
SchedulerExists == \E t \in attempts : t.pc = "done"

\* restoreAuthState (run once by activate, before the commands are registered) or
\* initializeSyncforge (run by the login and set-up commands) reaches its setup
\* call, whose ensureRepoSetup starts; `via` is initializeRepo for restoreAuthState
\* on a fresh install whose repository did not exist, ensureRepoSetup otherwise
AttemptBegins(caller, via, remoteUrl) ==
    /\ Cardinality(attempts) < MaxAttempts
    /\ IF caller = "restoreAuthState"
       THEN attempts = {}
       ELSE /\ via = "ensureRepoSetup"
            /\ \A t \in attempts : t.caller = "restoreAuthState" => t.pc \in {"done", "failed"}
    /\ SetupCalled(remoteUrl)
    /\ attempts' = attempts \cup
            {[id |-> Cardinality(attempts) + 1, caller |-> caller, via |-> via,
              setup |-> FreshSetup, pc |-> "ensureRepoSetup"]}
    /\ UNCHANGED lifeVars

\* a mutant: the attempt goes on to initializeTracker whether or not its setup
\* call threw
AttemptGoesOn(t, after) == "initializeTracker"

\* where attempt t goes when its ensureRepoSetup has returned or thrown: the rest
\* of initializeRepo, `await initializeTracker(services)`, or the catch block
AttemptAfterSetup(t, after) ==
    IF after = "throw" THEN "failed"
    ELSE IF t.via = "initializeRepo" THEN "initializeRepo" ELSE "initializeTracker"

\* a mutant: the hard reset runs whatever branch is checked out
AfterSetupStepAnyBranch(a) ==
    CASE a.pc = "isRepo" -> "getRemotes"
      [] a.pc = "getRemotes" -> IF HasOrigin(repo.remotes) THEN "getConfig" ELSE "add"
      [] a.pc = "getConfig" ->
            IF NeedsReplace(OriginUrl(repo.remotes), a.url) THEN "remove" ELSE "fetch"
      [] a.pc = "remove" -> IF HasOrigin(repo.remotes) THEN "add" ELSE "throw"
      [] a.pc = "add" -> IF HasOrigin(repo.remotes) THEN "throw" ELSE "fetch"
      [] a.pc = "fetch" -> "status"
      [] a.pc = "status" -> "reset"
      [] a.pc = "reset" -> "verify"
      [] a.pc = "verify" -> IF VerifiedOrigin(repo.remotes) THEN "return" ELSE "throw"

\* status.current: 'main' is the branch the setup creates and the only one the
\* extension checks out; while a rebase is stopped on a conflict HEAD is detached
CurrentBranch(r) == IF r.rebasing THEN "HEAD" ELSE "main"

\* where activation a goes after its awaited git command succeeded: a later
\* step, "return", or "throw" (git refuses to add a remote that exists and to
\* remove one that does not)
AfterSetupStep(a) ==
    CASE a.pc = "isRepo" -> "getRemotes"
      [] a.pc = "getRemotes" -> IF HasOrigin(repo.remotes) THEN "getConfig" ELSE "add"
      [] a.pc = "getConfig" ->
            IF NeedsReplace(OriginUrl(repo.remotes), a.url) THEN "remove" ELSE "fetch"
      [] a.pc = "remove" -> IF HasOrigin(repo.remotes) THEN "add" ELSE "throw"
      [] a.pc = "add" -> IF HasOrigin(repo.remotes) THEN "throw" ELSE "fetch"
      [] a.pc = "fetch" -> "status"
      [] a.pc = "status" -> IF CurrentBranch(repo) = "main" THEN "reset" ELSE "verify"
      [] a.pc = "reset" -> "verify"
      [] a.pc = "verify" -> IF VerifiedOrigin(repo.remotes) THEN "return" ELSE "throw"

\* the repository after the git command of activation a succeeded
RepoAfterSetupStep(a) ==
    CASE a.pc = "isRepo" -> [repo EXCEPT !.isRepo = TRUE]
      [] a.pc = "remove" -> [repo EXCEPT !.remotes = {r \in @ : r.name # Origin}]
      [] a.pc = "add" /\ ~HasOrigin(repo.remotes) ->
            [repo EXCEPT !.remotes = @ \cup {[name |-> Origin, url |-> a.url]}]
      [] a.pc = "reset" -> [repo EXCEPT !.index = {}]
      [] OTHER -> repo

\* the awaited git command of activation a returns (ok) or throws; a failed fetch,
\* status or reset is logged and the verification follows; `fetched` and `reset`
\* keep whether the fetch and the hard reset of the call have returned
SetupStep(a, ok) ==
    /\ a \in setups
    /\ LET after == IF ok THEN AfterSetupStep(a)
                     ELSE IF a.pc \in {"fetch", "status", "reset"} THEN "verify" ELSE "throw"
       IN /\ repo' = IF ok THEN RepoAfterSetupStep(a) ELSE repo
          /\ attempts' =
                IF after \in {"return", "throw"}
                THEN {IF t.setup = a.id /\ t.pc = "ensureRepoSetup"
                      THEN [t EXCEPT !.pc = AttemptAfterSetup(t, after)]
                      ELSE t : t \in attempts}
                ELSE attempts
          /\ IF after \in {"return", "throw"}
             THEN /\ setups' = setups \ {a}
                  /\ setupRunning' = setupRunning - 1
             ELSE /\ setups' = (setups \ {a}) \cup
                                {[a EXCEPT !.pc = after,
                                           !.fetched = @ \/ (ok /\ a.pc = "fetch"),
                                           !.reset = @ \/ (ok /\ a.pc = "reset")]}
                  /\ UNCHANGED setupRunning
    /\ UNCHANGED <<trackerVars, schedulerVars, operationQueue, chainState, gateVars, job, lifeVars>>

\* the steps of initializeRepo after ensureRepoSetup (.gitignore, initial commit,
\* push, statistics) return or throw, and `await initializeRepo(...)` with them
InitializeRepoEnds(t, ok) ==
    /\ t \in attempts
    /\ t.pc = "initializeRepo"
    /\ attempts' = (attempts \ {t}) \cup
            {[t EXCEPT !.pc = IF ok THEN "initializeTracker" ELSE "failed"]}
    /\ UNCHANGED <<trackerVars, schedulerVars, gitVars, gateVars, job, repo, setups, lifeVars>>

\* initializeTracker: services.scheduler = new Scheduler(...) and start() on it;
\* the new object has no timer to clear, and the Scheduler it replaces is not
\* stopped
InitializeTracker(t) ==
    /\ t \in attempts
    /\ t.pc = "initializeTracker"
    /\ attempts' = (attempts \ {t}) \cup {[t EXCEPT !.pc = "done"]}
    /\ armed' = Started(armed, 0, commitFrequency)
    /\ timer' = NextHandle(armed)
    /\ isCommiting' = FALSE
    /\ pendingChanges' = FALSE
    /\ UNCHANGED <<commitFrequency, flushes, timeouts, failedPaths, trackerVars, gitVars,
                   gateVars, job, repo, setups, lifeVars>>

\* handleStartTracking on an existing Scheduler
StartTracking == SchedulerExists /\ Start

(***************************************************************************)
(* Specification                                                           *)
(***************************************************************************)
Init ==
    /\ isInitialized = FALSE
    /\ excludePatterns = <<>>
    /\ changes = <<>>
    /\ clock = 0
    /\ lastEvent = NoEvent
    /\ timer = 0
    /\ armed = {}
    /\ commitFrequency = 30
    /\ isCommiting = FALSE
    /\ pendingChanges = FALSE
    /\ flushes = {}
    /\ timeouts = 0
    /\ operationQueue = <<>>
    /\ chainState = "fulfilled"
    /\ setupRunning = 0
    /\ failedPaths = {}
    /\ activeProcesses = 0
    /\ callers = [c \in Callers |-> IdleCaller]
    /\ waiters = <<>>
    /\ job = IdleJob
    /\ repo = NewRepo
    /\ setups = {}
    /\ attempts = {}
    /\ now = Epoch
    /\ orphans = NoOrphans

\* the flush pipeline: the Tracker's ledger, the Scheduler and the operation queue
Next ==
    \/ InitializeWatcher(TRUE, <<>>)
    \/ \E uri \in FlushPaths, type \in ChangeTypes : HandleChange(uri, type)
    \/ Start
    \/ \E t \in armed : TimerFire(t.handle)
    \/ TimeoutFire
    \/ \E a \in flushes, confirm \in BOOLEAN : SummaryDone(a.id, confirm)
    \/ \E a \in flushes, proceed \in BOOLEAN : ConfirmAnswer(a.id, proceed)
    \/ Enqueue("commitAndPush")
    \/ \E i \in 1..Len(operationQueue) : StartOperation(i)
    \/ SkipOperation
    \/ \E i \in 1..Len(operationQueue), ok \in BOOLEAN : SettleOperation(i, ok)

Spec == Init /\ [][Next]_vars

\* the Tracker alone, on every path and exclude list
TrackerNext ==
    \/ \E ok \in BOOLEAN, patterns \in ExcludeChoices : InitializeWatcher(ok, patterns)
    \/ \E patterns \in ExcludeChoices : UpdateExcludePatterns(patterns)
    \/ \E uri \in EventPaths, type \in ChangeTypes : HandleChange(uri, type)

SpecTracker == Init /\ [][TrackerNext]_vars

\* GitService alone, with callers of every queued operation and of ensureRepoSetup
QueueNext ==
    \/ \E kind \in OperationKinds : Enqueue(kind)
    \/ \E i \in 1..Len(operationQueue) : StartOperation(i)
    \/ SkipOperation
    \/ \E i \in 1..Len(operationQueue), ok \in BOOLEAN : SettleOperation(i, ok)
    \/ EnsureRepoSetupCall
    \/ EnsureRepoSetupReturn

SpecQueue == Init /\ [][QueueNext]_vars

\* one Scheduler under start, stop and updateFrequency calls: the timer, the
\* flushes it starts on one tracked file and the operation queue
TimerNext ==
    \/ InitializeWatcher(TRUE, <<>>)
    \/ HandleChange(PathA, "changed")
    \/ Start
    \/ Stop
    \/ \E n \in Frequencies : UpdateFrequency(n)
    \/ \E t \in armed : TimerFire(t.handle)
    \/ TimeoutFire
    \/ \E a \in flushes : SummaryDone(a.id, FALSE)
    \/ \E i \in 1..Len(operationQueue) : StartOperation(i)
    \/ SkipOperation
    \/ \E i \in 1..Len(operationQueue), ok \in BOOLEAN : SettleOperation(i, ok)

SpecTimer == Init /\ [][TimerNext]_vars

RetryCallers == {1, 2}

\* withRetry alone: two callers, operations of every outcome
RetryNext ==
    \/ \E c \in RetryCallers : WithRetryCall(c)
    \/ \E c \in RetryCallers, outcome \in OperationOutcomes : OperationSettles(c, outcome)
    \/ \E c \in RetryCallers : RetryWake(c)

SpecRetry == Init /\ [][RetryNext]_vars

\* withProcessLimit alone: more callers than slots, operations that succeed
GateNext ==
    \/ \E c \in Callers : WithRetryCall(c)
    \/ \E c \in Callers : PollGate(c)
    \/ \E c \in Callers : OperationSettles(c, Succeeded)

SpecGate == Init /\ [][GateNext]_vars

\* GitService.commitAndPush step by step, submitted by callers outside the Scheduler
CommitNext ==
    \/ Enqueue("commitAndPush")
    \/ \E i \in 1..Len(operationQueue) : CommitAndPushStarts(i)
    \/ SkipOperation
    \/ \E ok \in BOOLEAN : Materialize(ok)
    \/ \E outcome \in GitOutcomes(job.pc) : GitCommand(outcome)
    \/ JobRetryWake
    \/ \E ok \in BOOLEAN : StatsUpdate(ok)

SpecCommit == Init /\ [][CommitNext]_vars

\* a flush from the timer to the end of commitAndPush: the ledger, the Scheduler
\* and the body of the commitAndPush it submits
FlushNext ==
    \/ InitializeWatcher(TRUE, <<>>)
    \/ \E uri \in {PathA, PathNestedA} : HandleChange(uri, "changed")
    \/ Start
    \/ \E t \in armed : TimerFire(t.handle)
    \/ TimeoutFire
    \/ \E a \in flushes : SummaryDone(a.id, FALSE)
    \/ \E i \in 1..Len(operationQueue) : CommitAndPushStarts(i)
    \/ SkipOperation
    \/ \E ok \in BOOLEAN : Materialize(ok)
    \/ \E outcome \in GitOutcomes(job.pc) : GitCommand(outcome)
    \/ JobRetryWake
    \/ \E ok \in BOOLEAN : StatsUpdate(ok)

SpecFlush == Init /\ [][FlushNext]_vars

\* GitService.ensureRepoSetup step by step, called with either URL
SetupNext ==
    \/ \E remoteUrl \in RemoteUrls : SetupBegins(remoteUrl)
    \/ \E a \in setups, ok \in BOOLEAN : SetupStep(a, ok)

SpecSetup == Init /\ [][SetupNext]_vars

\* the tracking directory as an earlier session of the extension can have left
\* it: not yet set up, set up on main, or with the rebase of a commitAndPush
\* stopped on a conflict
ExistingRepos ==
    {NewRepo} \cup
    {[isRepo |-> TRUE, remotes |-> {[name |-> Origin, url |-> UrlA]},
      rebasing |-> rebasing, index |-> {}] : rebasing \in BOOLEAN}

InitExisting ==
    /\ isInitialized = FALSE
    /\ excludePatterns = <<>>
    /\ changes = <<>>
    /\ clock = 0
    /\ lastEvent = NoEvent
    /\ timer = 0
    /\ armed = {}
    /\ commitFrequency = 30
    /\ isCommiting = FALSE
    /\ pendingChanges = FALSE
    /\ flushes = {}
    /\ timeouts = 0
    /\ operationQueue = <<>>
    /\ chainState = "fulfilled"
    /\ setupRunning = 0
    /\ failedPaths = {}
    /\ activeProcesses = 0
    /\ callers = [c \in Callers |-> IdleCaller]
    /\ waiters = <<>>
    /\ job = IdleJob
    /\ repo \in ExistingRepos
    /\ setups = {}
    /\ attempts = {}
    /\ now = Epoch
    /\ orphans = NoOrphans

\* ensureRepoSetup on a tracking directory of an earlier session
SpecResync == InitExisting /\ [][SetupNext]_vars

\* time passes: the local clock is at a later instant
TimePasses(date) ==
    /\ (((date.day * 24) + date.hours) * 60 + date.minutes) * 60 + date.seconds >
            (((now.day * 24) + now.hours) * 60 + now.minutes) * 60 + now.seconds
    /\ now' = date
    /\ UNCHANGED <<trackerVars, schedulerVars, gitVars, gateVars, repoVars, orphans>>

\* commitAndPush calls at different times, up to the files they write
StampNext ==
    \/ \E date \in Instants : TimePasses(date)
    \/ Enqueue("commitAndPush")
    \/ \E i \in 1..Len(operationQueue) : CommitAndPushStarts(i)
    \/ \E ok \in BOOLEAN : Materialize(ok)

SpecStamp == Init /\ [][StampNext]_vars

\* the operation queue of a GitService on which dispose() is called
DisposeNext ==
    \/ \E kind \in OperationKinds : Enqueue(kind)
    \/ \E i \in 1..Len(operationQueue) : StartOperation(i)
    \/ SkipOperation
    \/ \E i \in 1..Len(operationQueue), ok \in BOOLEAN : SettleOperation(i, ok)
    \/ Dispose
    \/ \E ok \in BOOLEAN : OldChainStep(ok)

SpecDispose == Init /\ [][DisposeNext]_vars

\* the gate of a GitService on which cleanUp() and dispose() are called
CleanUpNext ==
    \/ \E c \in Callers : WithRetryCall(c)
    \/ \E c \in Callers : PollGate(c)
    \/ \E c \in Callers : OperationSettles(c, Succeeded)
    \/ CleanUp
    \/ Dispose

SpecCleanUp == Init /\ [][CleanUpNext]_vars

\* the setup attempts of the extension with the Scheduler they create: activation,
\* logins, start and stop of tracking, and the timer starting flushes
AttemptNext ==
    \/ InitializeWatcher(TRUE, <<>>)
    \/ HandleChange(PathA, "changed")
    \/ \E caller \in {"restoreAuthState", "initializeSyncforge"}, via \in {"initializeRepo", "ensureRepoSetup"} :
            AttemptBegins(caller, via, UrlA)
    \/ \E a \in setups, ok \in BOOLEAN : SetupStep(a, ok)
    \/ \E t \in attempts, ok \in BOOLEAN : InitializeRepoEnds(t, ok)
    \/ \E t \in attempts : InitializeTracker(t)
    \/ StartTracking
    \/ \E h \in armed : TimerFire(h.handle)

SpecAttempt == Init /\ [][AttemptNext]_vars

(***************************************************************************)
(* Properties                                                              *)
(***************************************************************************)
SchedulerSubmissions == {i \in 1..Len(operationQueue) : operationQueue[i].owner # 0}

CommitChangesCalled == (\E t \in armed : TimerFire(t.handle)) \/ TimeoutFire

\* C1: one Scheduler has at most one flush in flight: at most one activation of
\* commitChanges is past the busy check and at most one of its commitAndPush calls
\* is unsettled, and a commitChanges call made while isCommiting is true sets
\* pendingChanges and touches neither the ledger, nor the activations, nor the queue.
C1_AtMostOneFlushInFlight ==
    /\ [](Cardinality(flushes) <= 1 /\ Cardinality(SchedulerSubmissions) <= 1)
    /\ [][(isCommiting /\ CommitChangesCalled) =>
            (pendingChanges' /\ UNCHANGED <<changes, flushes, operationQueue, isCommiting>>)]_vars

C1_Witness ==
    /\ isCommiting
    /\ pendingChanges
    /\ \E i \in RunningOperations : operationQueue[i].owner # 0

FlushSucceeds(f) ==
    \E i \in RunningOperations : operationQueue[i].owner = f /\ SettleOperation(i, TRUE)

ArrivedDuring(f) == {r \in Range(changes) : r \notin Range(Flush(f).changedFiles)}

\* C2: a change accepted while a flush is in progress (a ledger record that is not
\* in the flush's captured list) is still in the ledger after that flush has
\* completed successfully.
C2_ChangeDuringFlushKept ==
    [][\A a \in flushes : FlushSucceeds(a.id) => ArrivedDuring(a.id) \subseteq Range(changes')]_vars

\* C3: an error in one queued operation rejects only that operation's promise: a
\* promise of the queue settles only through its own operation having run.
C3_ErrorDoesNotPoisonQueue ==
    [][Len(operationQueue') < Len(operationQueue) =>
            \E i \in RunningOperations : operationQueue' = RemoveAt(operationQueue, i)]_vars

\* C4: at no instant are two repository-mutating operations executing: the
\* operations running in the queue and the ensureRepoSetup calls in progress
\* number at most one together.
C4_OneMutatingOperation == Cardinality(RunningOperations) + setupRunning <= 1

\* C5: queued operations start in submission order and never overlap: an operation
\* is running only when every promise submitted before it has settled, that is,
\* when it is the first unsettled promise of the chain.
C5_FifoNoOverlap ==
    \A i \in 1..Len(operationQueue) : operationQueue[i].state = "running" => i = 1

C5_Witness ==
    /\ Len(operationQueue) >= 2
    /\ operationQueue[1].state = "running"
    /\ operationQueue[2].state = "pending"

C7_OneRecordPerPath ==
    /\ \A i, j \in 1..Len(changes) : changes[i].uri = changes[j].uri => i = j
    /\ Len(changes) = Cardinality(MapKeys(changes))

C7_Witness ==
    /\ lastEvent.tracked
    /\ lastEvent.existing # "none"
    /\ Len(changes) = 2
    /\ changes[1].uri = lastEvent.uri

\* C8: a Deleted event on a path whose record is Added removes the record.
C8_AddedThenDeletedRemoved ==
    (lastEvent.tracked /\ lastEvent.existing = "added" /\ lastEvent.type = "deleted")
        => ~MapHas(changes, lastEvent.uri)

\* the rows of the transition table that the claim lists
TableListed(k, e) ==
    \/ k = "deleted" /\ e = "added"
    \/ k = "added" /\ e = "changed"
    \/ k = "changed" /\ e = "changed"
    \/ k = "changed" /\ e = "deleted"
    \/ k = "none"

TableKind(k, e) ==
    IF k = "deleted" /\ e = "added" THEN "added"
    ELSE IF k = "added" /\ e = "changed" THEN "added"
    ELSE IF k = "changed" /\ e = "changed" THEN "changed"
    ELSE IF k = "changed" /\ e = "deleted" THEN "deleted"
    ELSE e

\* C9: after a tracked event e on a path whose record had kind k, the stored kind
\* is the one of the table: Deleted+Added -> Added, Added+Modified -> Added,
\* Modified+Modified -> Modified, Modified+Deleted -> Deleted, no record -> e.
C9_TransitionTable ==
    (lastEvent.tracked /\ TableListed(lastEvent.existing, lastEvent.type))
        => /\ MapHas(changes, lastEvent.uri)
           /\ MapGet(changes, lastEvent.uri).type = TableKind(lastEvent.existing, lastEvent.type)

C9_Witness ==
    /\ lastEvent.tracked
    /\ lastEvent.existing = "added"
    /\ lastEvent.type = "changed"
    /\ MapGet(changes, lastEvent.uri).type = "added"
    /\ MapGet(changes, lastEvent.uri).timeStamp = 3

\* the path lies inside the tracking directory
InsideTrackingDir(filePath) == StartsWith(filePath, trackingDir \o <<"/">>)

ClaimedAccept(filePath, patterns) ==
    /\ ~InsideTrackingDir(filePath)
    /\ ~IsExcluded(filePath, patterns)
    /\ FileExt(filePath) \in trackedExtensions

\* C10: an event is accepted if and only if its path is not inside the tracking
\* directory, matches no exclude pattern and has an allow-listed lower-cased
\* extension; an accepted event is recorded, a rejected one leaves the ledger
\* unchanged.
C10_ClassifierRules ==
    [][\A uri \in EventPaths, type \in ChangeTypes :
            (isInitialized /\ HandleChange(uri, type)) =>
                IF ClaimedAccept(uri, excludePatterns)
                THEN MapHas(changes', uri) /\ clock' = clock + 1
                ELSE UNCHANGED changes]_vars

\* an activation of commitChanges has run its finally block
FlushCompletes == Cardinality(flushes') < Cardinality(flushes)

\* C11: when a flush completes (commitAndPush returned or threw, or the user
\* declined), isCommiting and pendingChanges are false afterwards, exactly one
\* re-flush timeout has been set if pendingChanges was true and none if it was
\* false, and the re-flush does not run in that step: no activation starts and
\* nothing is submitted to the queue.
C11_OneFollowUpFlush ==
    [][FlushCompletes =>
            /\ ~isCommiting'
            /\ ~pendingChanges'
            /\ timeouts' = timeouts + (IF pendingChanges THEN 1 ELSE 0)
            /\ flushes' \subseteq flushes
            /\ Len(operationQueue') <= Len(operationQueue)]_vars

C11_Witness ==
    /\ timeouts = 1
    /\ ~isCommiting
    /\ ~pendingChanges
    /\ flushes = {}
    /\ changes # <<>>

\* C12: at most one repeating timer is armed after any sequence of start, stop and
\* updateFrequency calls: the armed intervals are exactly the one Scheduler.timer
\* holds, with the delay of the current frequency, or none when timer is null;
\* updateFrequency(10) on a Scheduler running at 5 minutes leaves exactly one
\* interval, of 10 minutes.
C12_AtMostOneTimer ==
    /\ [](/\ Cardinality(armed) <= 1
          /\ timer = 0 => armed = {}
          /\ timer # 0 => armed = {[handle |-> timer, delay |-> IntervalMs(commitFrequency)]})
    /\ [][(commitFrequency = 5 /\ timer # 0 /\ UpdateFrequency(10)) =>
            armed' = {[handle |-> timer', delay |-> 10 * 60 * 1000]}]_vars

C12_Witness ==
    /\ commitFrequency = 10
    /\ timer # 0
    /\ armed = {[handle |-> timer, delay |-> 600000]}

\* an activation of commitChanges passes the busy check
FlushStarts == ~isCommiting /\ isCommiting'

\* C13: stop cancels the timer and leaves the flush in flight alone, and while the
\* Scheduler is stopped (timer is null before and after the step) no new flush
\* starts.
C13_NoFlushAfterStop ==
    /\ [][Stop => (armed' = {} /\ UNCHANGED <<isCommiting, flushes, operationQueue>>)]_vars
    /\ [][(timer = 0 /\ timer' = 0) => ~FlushStarts]_vars

\* C14: updateFrequency(n) leaves the Scheduler as stop() followed by start() at
\* interval n would, from every state: the armed intervals are those of Started
\* applied to the Stopped timers, which is exactly one interval of n minutes held
\* by Scheduler.timer, and the busy and pending flags, the activations, the
\* re-flush timeouts, the queue and the ledger are untouched.
C14_UpdateFrequencyIsStopStart ==
    [][\A n \in Frequencies : UpdateFrequency(n) =>
            /\ armed' = Started(Stopped(armed, timer), 0, n)
            /\ timer' = NextHandle(Stopped(armed, timer))
            /\ armed' = {[handle |-> timer', delay |-> IntervalMs(n)]}
            /\ commitFrequency' = n
            /\ UNCHANGED <<isCommiting, pendingChanges, flushes, timeouts,
                           operationQueue, chainState, changes>>]_vars

C14_Witness ==
    /\ commitFrequency = 5
    /\ armed = {[handle |-> timer, delay |-> IntervalMs(5)]}
    /\ isCommiting
    /\ pendingChanges
    /\ RunningOperations # {}

\* the delays withRetry has slept before attempt n
DelaysBefore(n) == [k \in 1..(n - 1) |-> 1000 * k]

ContainsEAGAIN(message) == Includes(message, <<"E", "A", "G", "A", "I", "N">>)

\* C15: withRetry runs the operation at most 3 times; before attempt n it has slept
\* 1000 ms after attempt 1 and 2000 ms after attempt 2 and nothing else; an error
\* it throws is the error of its last run, and that error either does not contain
\* 'EAGAIN' or comes from the third attempt; a failing attempt whose message does
\* not contain 'EAGAIN' ends the call in that step, with no delay added.
C15_RetryPolicy ==
    /\ [](\A c \in Callers :
            /\ callers[c].runs <= 3
            /\ callers[c].runs <= callers[c].attempt
            /\ callers[c].pc # "idle" =>
                    callers[c].delays = DelaysBefore(IF callers[c].pc = "delay"
                                                     THEN callers[c].attempt + 1
                                                     ELSE callers[c].attempt)
            /\ callers[c].pc = "threw" =>
                    (~ContainsEAGAIN(callers[c].error) \/ callers[c].attempt = 3))
    /\ [][\A c \in Callers, outcome \in OperationOutcomes :
            (OperationSettles(c, outcome) /\ ~outcome.ok) =>
                IF ContainsEAGAIN(outcome.message) /\ callers[c].attempt < 3
                THEN callers'[c].pc = "delay"
                ELSE /\ callers'[c].pc = "threw"
                     /\ callers'[c].error = outcome.message
                     /\ callers'[c].delays = callers[c].delays]_vars

C15_Witness ==
    \E c \in Callers :
        /\ callers[c].pc = "threw"
        /\ callers[c].error = ErrEAGAIN
        /\ callers[c].runs = 3
        /\ callers[c].delays = <<1000, 2000>>

Inside == {c \in Callers : callers[c].pc = "running"}

\* C16: activeProcesses counts the operations inside withProcessLimit and never
\* exceeds 5; a caller that arrives at a full gate waits, and a waiting caller
\* enters only in a step that starts with a free slot.
C16_GateLimit ==
    /\ [](activeProcesses = Cardinality(Inside) /\ activeProcesses <= 5)
    /\ [][\A c \in Callers :
            /\ (activeProcesses >= 5 /\ WithRetryCall(c)) => callers'[c].pc = "waiting"
            /\ (callers[c].pc = "waiting" /\ callers'[c].pc = "running") =>
                    activeProcesses < 5]_vars

C16_Witness ==
    /\ activeProcesses = 5
    /\ Len(waiters) = 2

\* caller c takes a slot of the gate
Enters(c) == callers[c].pc # "running" /\ callers'[c].pc = "running"

AfterFirstPush(commands) ==
    LET pushes == {i \in 1..Len(commands) : commands[i] = "push"}
    IN IF pushes = {} THEN <<>>
       ELSE SubSeq(commands, (CHOOSE i \in pushes : \A j \in pushes : i <= j) + 1, Len(commands))

IsPrefix(s, t) == Len(s) <= Len(t) /\ SubSeq(t, 1, Len(s)) = s

\* the push of this attempt was rejected and the push retried after fetch and
\* rebase has succeeded
RetriedPushSucceeded ==
    job.pc = "stats" /\ AfterFirstPush(job.commands) = <<"fetch", "rebase", "push">>

\* C18: after the first push of an attempt only fetch, rebase and one more push are
\* run; a push that fails with 'rejected' or 'stale info' is followed by the fetch,
\* any other push error is thrown in that step with nothing run after it; and once
\* the retried push has succeeded, commitAndPush fulfils its promise.
C18_RebaseAndRetryOnce ==
    /\ [](IsPrefix(AfterFirstPush(job.commands), <<"fetch", "rebase", "push">>))
    /\ [][\A m \in GitErrors("push") : (job.pc = "push" /\ GitCommand(Failed(m))) =>
            IF m \in {ErrRejected, ErrStaleInfo}
            THEN job'.pc = "refetch"
            ELSE /\ job'.pc \in {"idle", "delay"}
                 /\ callers'[JobCaller].pc \in {"threw", "delay"}
                 /\ AfterFirstPush(job'.commands) = <<>>]_vars
    /\ [][(job.pc = "repush" /\ GitCommand(Succeeded)) => RetriedPushSucceeded']_vars
    /\ [][(RetriedPushSucceeded /\ job'.pc = "idle") => chainState' = "fulfilled"]_vars

\* C19: when the rebase after a rejected push fails with a conflict, the
\* repository has no rebase in progress afterwards, and the job fails in that step
\* without a retry: withRetry throws and the promise of commitAndPush rejects.
C19_RebaseConflictAborted ==
    [][(job.pc = "rebase" /\ GitCommand(Failed(ErrConflict))) =>
            /\ ~repo'.rebasing
            /\ callers'[JobCaller].pc = "threw"
            /\ job'.pc = "idle"
            /\ chainState' = "rejected"]_vars

\* activation a of ensureRepoSetup returns without error in this step
SetupReturns(a) ==
    a.pc = "verify" /\ VerifiedOrigin(repo.remotes) /\ SetupStep(a, TRUE)

\* C20: a call of ensureRepoSetup that no other call overlaps and that returns
\* without error leaves origin set to its URL, and when origin already had that
\* URL at the call (as after an earlier successful call with the same URL) it
\* leaves the set of remotes exactly as it was: repeated calls with one URL give
\* the remotes of the first; the repository never has two remotes named origin
\* nor a remote the calls did not ask for.
C20_SetupIdempotent ==
    /\ [](\A r \in repo.remotes : r.name = Origin /\ r.url \in RemoteUrls)
    /\ [](Cardinality(repo.remotes) <= 1)
    /\ [][\A a \in setups : (a.alone /\ SetupReturns(a)) =>
            /\ [name |-> Origin, url |-> a.url] \in repo'.remotes
            /\ [name |-> Origin, url |-> a.url] \in a.before => repo'.remotes = a.before]_vars

C20_Witness ==
    \E a \in setups :
        /\ a.pc = "verify"
        /\ a.alone
        /\ a.url = UrlA
        /\ a.before = {[name |-> Origin, url |-> UrlA]}
        /\ repo.remotes = a.before

\* C21: a call of ensureRepoSetup(remoteUrl) that returns without error leaves a
\* remote named origin whose URL is remoteUrl, whatever the remotes were before.
C21_OriginIsRemoteUrl ==
    [][\A a \in setups : SetupReturns(a) =>
            [name |-> Origin, url |-> a.url] \in repo'.remotes]_vars

\* commitAndPush returns in this step to the activation of Scheduler.commitChanges
\* that awaits it
JobReturnsToFlush ==
    /\ job.pc = "stats"
    /\ operationQueue[JobIndex].owner # 0
    /\ StatsUpdate(TRUE)

\* C22: when the flush of a non-empty ledger succeeds, the call has created
\* exactly one commit, with the message handed to git commit for the job and with
\* one file for each record of the job, and the ledger is empty afterwards.
C22_OneCommitPerFlush ==
    [][JobReturnsToFlush =>
            /\ Len(job'.commits) = 1
            /\ job'.commits[1].message = "updatedMessage"
            /\ Cardinality(job'.commits[1].files) = Len(job.records)
            /\ changes' = <<>>]_vars

\* a promise of the operation queue rejects in this step: its operation threw,
\* or it was never run because its predecessor had rejected
PromiseRejects ==
    /\ Len(operationQueue') < Len(operationQueue)
    /\ chainState' = "rejected"

ErrorEvents(events) == Cardinality({i \in 1..Len(events) : events[i] = "error"})

\* C23: every rejection of a queued operation's promise is reported once: the
\* step in which the promise rejects hands exactly one 'error' event to emitSafe.
C23_ErrorEmittedOncePerFailure ==
    [][PromiseRejects => ErrorEvents(job'.events) = ErrorEvents(job.events) + 1]_vars

\* where the attempt of this id is
AttemptPc(id) == (CHOOSE t \in attempts : t.id = id).pc

\* C24: a timer is armed and a flush runs only once a setup attempt has created
\* the Scheduler; an attempt leaves its setup call for initializeTracker (or the
\* rest of initializeRepo) only in a step in which its ensureRepoSetup returns
\* without error, and creates the Scheduler only from initializeTracker; when the
\* setup call throws, the attempt goes to its catch block in that step with the
\* timers untouched, and stays there: it never creates or starts a Scheduler.
C24_SchedulerOnlyAfterSetup ==
    /\ []((armed # {} \/ flushes # {}) => SchedulerExists)
    /\ [][\A t \in attempts :
            /\ (t.pc = "ensureRepoSetup" /\ AttemptPc(t.id)' # "ensureRepoSetup") =>
                    \E a \in setups :
                        /\ a.id = t.setup
                        /\ IF SetupReturns(a)
                           THEN AttemptPc(t.id)' \in {"initializeTracker", "initializeRepo"}
                           ELSE AttemptPc(t.id)' = "failed" /\ UNCHANGED <<timer, armed>>
            /\ (t.pc # "done" /\ AttemptPc(t.id)' = "done") => t.pc = "initializeTracker"
            /\ t.pc = "failed" => AttemptPc(t.id)' = "failed"
            /\ (t.pc # "failed" /\ AttemptPc(t.id)' = "failed") => UNCHANGED <<timer, armed>>]_vars

\* a setup call has thrown with changes in the ledger, and there is no Scheduler
C24_Witness ==
    /\ \E t \in attempts : t.pc = "failed" /\ t.via = "ensureRepoSetup"
    /\ changes # <<>>
    /\ ~SchedulerExists
    /\ armed = {}

\* the paths of the ledger in the order getChangedFiles returns their records
SnapshotOrder == [i \in 1..Len(getChangedFiles) |-> getChangedFiles[i].uri]

\* C25: getChangedFiles lists the records in the order in which their paths were
\* first recorded: an event on a path that has a record leaves the order of the
\* paths as it was, and an event on a new path puts it after all the others.
C25_SnapshotInFirstSeenOrder ==
    [][\A uri \in EventPaths, type \in ChangeTypes :
            (HandleChange(uri, type) /\ lastEvent'.tracked) =>
                SnapshotOrder' = IF MapHas(changes, uri)
                                 THEN SnapshotOrder
                                 ELSE Append(SnapshotOrder, uri)]_vars

\* the path recorded first has been updated by the latest event and still leads
C25_Witness ==
    /\ Len(changes) = 2
    /\ changes[1].uri = PathA
    /\ changes[1].timeStamp = 3
    /\ changes[2].timeStamp = 2

\* the names of the files the call has written under changes/
MaterializedNames == {f.name : f \in job.files}

\* C26: git add stages the files of filesToAdd and nothing else, filesToAdd names
\* exactly the files the call has written under changes/, and every commit made
\* for the job holds exactly those files.
C26_StagesExactlyMaterialized ==
    /\ [](job.pc \in Range(GitSteps) => Range(job.filesToAdd) = MaterializedNames)
    /\ [](job.pc \in Range(GitSteps) => repo.index \subseteq MaterializedNames)
    /\ [][(job.pc = "add" /\ GitCommand(Succeeded)) =>
            /\ repo'.index \subseteq MaterializedNames
            /\ MaterializedNames \subseteq repo'.index \cup
                    UNION {c.files : c \in Range(job.commits)}]_vars
    /\ [](\A i \in 1..Len(job.commits) :
            job.commits[i].message = "updatedMessage" =>
                job.commits[i].files = MaterializedNames)

\* the job's commit has been made with the two files written for its two records
C26_Witness ==
    /\ job.pc = "fetch"
    /\ Len(job.commits) = 1
    /\ Cardinality(job.commits[1].files) = 2
    /\ job.commits[1].files = MaterializedNames

\* C27: the records of a job are written to distinct files: once the files are
\* written, each record of the job has a file under changes/ that holds its
\* content, so the call has written as many files as the job has records.
C27_DistinctFilePerRecord ==
    [](job.pc \in Range(GitSteps) =>
            /\ \A p \in Range(job.records) : \E f \in job.files : f.from = p
            /\ Cardinality(job.files) = Len(job.records))

CountOf(s, x) == Cardinality({i \in 1..Len(s) : s[i] = x})

\* C28: within one call of commitAndPush git commit is run once and 'commit' is
\* emitted once, whatever withRetry retries: a call that has returned from
\* withRetry has one 'commit' event, and a retried attempt does not run git commit
\* after an attempt that had run it.
C28_CommitOncePerCall ==
    /\ [](CountOf(job.events, "commit") <= 1)
    /\ [][(job.pc = "commit" /\ job'.pc # "commit") =>
            CountOf(job.events, "commit") = 0]_vars

\* the push of the running job has succeeded and commitAndPush settles in this
\* step for the activation of Scheduler.commitChanges that awaits it
PushedJobSettles ==
    /\ job.pc = "stats"
    /\ operationQueue[JobIndex].owner # 0
    /\ \E ok \in BOOLEAN : StatsUpdate(ok)

\* C29: when the flush of a job whose push has succeeded completes, no record that
\* was in the job and has had no event since is left in the ledger, whether the
\* statistics update that follows the push returns or throws.
C29_PushedChangesLeaveLedger ==
    [][PushedJobSettles =>
            \A r \in Range(changes') :
                r \notin Range(Flush(operationQueue[JobIndex].owner).changedFiles)]_vars

\* C30: at most one Scheduler timer is armed at any time, however many setup
\* attempts have run initializeTracker.
C30_OneTimerSystemWide == [](Cardinality(armed) <= 1)

\* the running commitAndPush has returned from the first attempt of withRetry
\* with one push, that is, with no retry of the function and none of the push
ReturnedWithoutRetry ==
    /\ job.pc = "stats"
    /\ callers[JobCaller].attempt = 1
    /\ CountOf(job.commands, "push") = 1

\* C31: a commitAndPush that succeeds without a retry has emitted, when it
\* returns, exactly operation:start, commit, push, operation:end in this order,
\* each once and with no 'error' among them.
C31_EventOrder ==
    /\ [](ReturnedWithoutRetry =>
            job.events = <<"operation:start", "commit", "push", "operation:end">>)
    /\ [][(ReturnedWithoutRetry /\ StatsUpdate(TRUE)) =>
            job'.events = <<"operation:start", "commit", "push", "operation:end">>]_vars

\* a commitAndPush has succeeded without a retry, its pre-push fetch having failed
C31_Witness ==
    /\ job.pc = "idle"
    /\ chainState = "fulfilled"
    /\ callers[JobCaller].attempt = 1
    /\ job.commands = <<"branch", "add", "commit", "fetch", "push">>
    /\ Len(job.commits) = 2

\* C32: a commitAndPush in which a push has succeeded has emitted 'push' exactly
\* once when it leaves withRetry, also when the push that succeeded is the one
\* retried after fetch and rebase.
C32_PushEmittedOnce == [](job.pc = "stats" => CountOf(job.events, "push") = 1)

\* the running commitAndPush leaves its body in this step: it returns or throws
\* after 'operation:start' was emitted
JobEnds ==
    /\ job.pc \notin {"idle", "materialize"}
    /\ job'.pc = "idle"

\* C33: when a commitAndPush that has emitted 'operation:start' ends, by return or
\* by throw, it has emitted exactly one 'operation:end'.
C33_StartHasEnd ==
    [][JobEnds => CountOf(job'.events, "operation:end") = 1]_vars

\* the pre-push fetch or merge of origin/main fails in this step
PrePushFails ==
    /\ job.pc \in {"fetch", "merge"}
    /\ \E outcome \in GitOutcomes(job.pc) : ~outcome.ok /\ GitCommand(outcome)

\* C34: a failure of the pre-push fetch or merge neither fails nor retries the
\* job: the attempt goes on, in the same attempt of withRetry and with no 'error'
\* emitted, to the push, with the commits already made, and the fetch is not run
\* a second time in the attempt.
C34_PrePushFailureTolerated ==
    /\ [][PrePushFails =>
            /\ job'.pc = "push"
            /\ callers'[JobCaller] = callers[JobCaller]
            /\ chainState' = chainState
            /\ job'.events = job.events
            /\ job'.commits = job.commits]_vars
    /\ [](job.pc = "push" => CountOf(job.commands, "fetch") = 1)

\* the push is about to run after the pre-push fetch has failed, one commit made
C34_Witness ==
    /\ job.pc = "push"
    /\ job.commands = <<"branch", "add", "commit", "fetch">>
    /\ Len(job.commits) = 1

\* the fetch of origin/main of activation a fails in this step
SetupFetchFails(a) == a.pc = "fetch" /\ SetupStep(a, FALSE)

FlushDeclined == \E a \in flushes : ConfirmAnswer(a.id, FALSE)

\* C36: a flush whose confirmation is not answered with 'Proceed' submits no job
\* to GitService, leaves the ledger as it is and resets isCommiting, so that the
\* next timer fire starts a flush; a follow-up recorded meanwhile is scheduled.
C36_DeclinedFlushSubmitsNothing ==
    [][FlushDeclined =>
        /\ operationQueue' = operationQueue
        /\ job' = job
        /\ changes' = changes
        /\ isCommiting' = FALSE
        /\ pendingChanges' = FALSE
        /\ timeouts' = timeouts + (IF pendingChanges THEN 1 ELSE 0)]_vars

\* a flush has been declined while a follow-up was pending: nothing was ever
\* submitted, the ledger holds its records and the follow-up is scheduled
C36_Witness ==
    /\ operationQueue = <<>>
    /\ flushes = {}
    /\ ~isCommiting
    /\ timeouts = 1
    /\ changes # clearChanges

\* the latest event was recorded on a path that had a record, and the pair is
\* neither Deleted+Added nor Added+Modified
OrdinaryPair ==
    /\ lastEvent.tracked
    /\ lastEvent.existing # "none"
    /\ ~(lastEvent.existing = "deleted" /\ lastEvent.type = "added")
    /\ ~(lastEvent.existing = "added" /\ lastEvent.type = "changed")

\* C37: for every pair of an existing type and an event other than Deleted+Added
\* and Added+Modified the record takes the type of the event, and the timestamp
\* of a record that an event has written is that of this event, the latest one.
C37_NewTypeStored ==
    /\ OrdinaryPair => MapGet(changes, lastEvent.uri).type = lastEvent.type
    /\ lastEvent.tracked =>
            /\ MapGet(changes, lastEvent.uri).timeStamp = clock
            /\ \A r \in Range(changes) : r.uri # lastEvent.uri => r.timeStamp < clock

\* a deleted file has been modified: the record is Modified, with the event's time
C37_Witness ==
    /\ OrdinaryPair
    /\ lastEvent.existing = "deleted"
    /\ lastEvent.type = "changed"
    /\ MapGet(changes, lastEvent.uri).type = "changed"
    /\ MapGet(changes, lastEvent.uri).timeStamp = 3
    /\ Len(changes) = 2

\* the UTF-16 code unit of a character of a timestamp
CharCode(c) ==
    CASE c = "-" -> 45
      [] c = "0" -> 48 [] c = "1" -> 49 [] c = "2" -> 50 [] c = "3" -> 51
      [] c = "4" -> 52 [] c = "5" -> 53 [] c = "6" -> 54 [] c = "7" -> 55
      [] c = "8" -> 56 [] c = "9" -> 57
      [] c = "A" -> 65 [] c = "M" -> 77 [] c = "P" -> 80

\* s < t in the order of strings, by code units
StringLess(s, t) ==
    \E i \in 1..Len(t) :
        /\ \A j \in 1..(i - 1) : j <= Len(s) /\ s[j] = t[j]
        /\ i <= Len(s) => CharCode(s[i]) < CharCode(t[i])

\* C38: the sortable timestamps of two instants are in the order of the
\* instants: when the clock goes from one instant to a later one, the timestamp
\* of the first is below that of the second in the order of strings.
C38_SortableTimestamps ==
    [][(\E date \in Instants : TimePasses(date)) =>
            StringLess(formatTimestamp(now), formatTimestamp(now'))]_vars

\* the operations of the replaced chain that are executing
OrphansRunning == {i \in 1..Len(orphans.queue) : orphans.queue[i].state = "running"}

\* C39: no operation enqueued after dispose() is executing while an operation
\* enqueued before it is still executing.
C39_SerializedAcrossDispose == RunningOperations = {} \/ OrphansRunning = {}

\* C40: activeProcesses is never negative and is the number of operations
\* executing inside withProcessLimit, cleanUp() and dispose() included.
C40_CounterWithinBounds ==
    /\ activeProcesses >= 0
    /\ activeProcesses = Cardinality(Inside)

====
